---- MODULE Spec2Model ----
(***************************************************************************)
(* Model of core::ringbuf::RingBuffer<T, Capacity> (src/src/ringbuf/       *)
(* ringbuf.hpp): a fixed-capacity circular buffer addressed through a      *)
(* write cursor, a read cursor and a "full" flag.                          *)
(*                                                                         *)
(* Every method is a pure operator from the object's fields (a record) to  *)
(* the fields after the call and the call's result; one action per method  *)
(* applies it to the buffer the model holds.                               *)
(***************************************************************************)
EXTENDS Integers, Sequences, FiniteSets, TLC

\* Template parameter Capacity of the buffer under test.
Capacity == 3

\* Element values are 0..MaxVal (T is an unsigned byte in the tests).
MaxVal == 1

\* Longest history of successful pushes recorded by the push/pop scenario.
MaxOps == 7

Values == 0..MaxVal

\* Lengths of the spans handed to push_buffer and pop_buffer: one more than
\* the capacity, so that a request can exceed free() / size() in any state.
MaxBatch == Capacity + 1

\* The spans handed to push_buffer: every sequence of values that is not
\* longer than the capacity, and one that is.
Batches ==
    UNION {[1..n -> Values] : n \in 0..Capacity} \cup {[i \in 1..MaxBatch |-> MaxVal]}

\* Content of a caller memory cell that no copy has written.
Blank == -1

\* Width in bits of size_t and ssize_t in the model.
Bits == 16

\* Offsets handed to the iterator arithmetic: -MaxOffset..MaxOffset, more
\* than two turns of the storage in either direction.
MaxOffset == 7

\* Iterator operations are followed while the cycle stays within
\* -MaxCycle..MaxCycle.
MaxCycle == 3

\* The least and the greatest value of ssize_t.
SMin == 0 - 2 ^ (Bits - 1)

SMax == 2 ^ (Bits - 1) - 1

\* The offsets tried: the small ones, and those at either end of ssize_t.
Offsets == (-MaxOffset)..MaxOffset \cup {SMin, SMin + 1, SMax - 1, SMax}

\* The indices handed to operator[]: the small ones, and those at the upper
\* end of size_t.
Indices == 0..MaxOffset \cup {2 ^ Bits - 2, 2 ^ Bits - 1}

VARIABLES
    buffer,     \* _buffer: std::array<T, Capacity>, indexed 0..Capacity-1
    write_ptr,  \* _write_ptr
    read_ptr,   \* _read_ptr
    is_full,    \* _is_full
    last,       \* the last call: method, arguments, result, memory effects
    pre,        \* the object's fields before the last call
    sent,       \* when the last call is pop_buffer and the call before it was
                \* a successful push_buffer on an empty buffer: <<xs>>, xs the
                \* batch pushed; <<>> otherwise
    pushed,     \* push/pop scenario: values of the successful pushes, in order
    popped,     \* push/pop scenario: values returned by the successful pops
    streak,     \* push/pop scenario: successful pushes since the buffer was
                \* last empty, -1 once a pop left it non-empty
    iter,       \* iterator scenario: the iterator the caller holds
    itlast      \* iterator scenario: the last iterator operation, its
                \* offset and the iterator it was applied to

vars ==
    <<buffer, write_ptr, read_ptr, is_full, last, pre, sent, pushed, popped,
      streak, iter, itlast>>

\* The object's fields as one value.
this ==
    [buffer |-> buffer, write_ptr |-> write_ptr, read_ptr |-> read_ptr,
     is_full |-> is_full]

----------------------------------------------------------------------------
\* State queries.

capacity(s) == Capacity

empty_mut(s) == s.write_ptr = s.read_ptr

empty(s) == s.write_ptr = s.read_ptr /\ ~s.is_full

full(s) == s.is_full

size(s) ==
    IF s.is_full THEN Capacity
    ELSE IF s.write_ptr >= s.read_ptr THEN s.write_ptr - s.read_ptr
    ELSE s.write_ptr + (Capacity - s.read_ptr)

free_mut(s) ==
    IF s.is_full THEN 0
    ELSE IF s.write_ptr >= s.read_ptr THEN (Capacity - s.write_ptr) + s.read_ptr
    ELSE s.write_ptr + (Capacity - s.read_ptr)

free(s) ==
    IF s.is_full THEN 0
    ELSE IF s.write_ptr >= s.read_ptr THEN (Capacity - s.write_ptr) + s.read_ptr
    ELSE s.read_ptr - s.write_ptr

----------------------------------------------------------------------------
\* std::copy of the sequence src into the array arr, first element at index
\* at.  The callers below only copy inside the array.
copy(src, arr, at) ==
    [i \in DOMAIN arr |->
        IF i >= at /\ i < at + Len(src) THEN src[i - at + 1] ELSE arr[i]]

\* The elements of the array arr at indices from..to-1, as a sequence.
slice(arr, from, to) == [i \in 1..(to - from) |-> arr[from + i - 1]]

\* span.first(n) and span.last(n) of a sequence.
first(xs, n) == SubSeq(xs, 1, n)
lastn(xs, n) == SubSeq(xs, Len(xs) - n + 1, Len(xs))

\* The result of a call: the fields afterwards, the error ("ok" when the
\* call has none), the value returned (pop), the elements the call wrote to
\* the caller's memory starting at the destination's first cell, and the
\* storage indices it read.
Result(s, err, ret, out, rd) ==
    [self |-> s, err |-> err, ret |-> ret, out |-> out, rd |-> rd]

----------------------------------------------------------------------------
\* core::ringbuf::Error, an error::Variant<error::Full, error::Empty>: the
\* value holds one of the two alternatives.

ErrorKinds == {"Full", "Empty"}

\* Error::Full() and Error::Empty(): the variant constructed from an error.
Variant(kind) == [held |-> kind]

\* Variant::is<E>().
is(e, kind) == e.held = kind

\* error::Error::operator== is defaulted and the class has no members: two
\* errors of the same type are equal.
Error_eq(kind, other) == TRUE

\* Variant::operator==(other), other an error of type kind.
Variant_eq_mut(e, kind) == Error_eq(e.held, kind)

Variant_eq(e, kind) ==
    IF ~is(e, kind) THEN FALSE ELSE Error_eq(e.held, kind)

----------------------------------------------------------------------------
\* Mutating methods.

push_mut_check(s, value) ==
    IF s.write_ptr = s.read_ptr THEN Result(s, "Full", <<>>, <<>>, {})
    ELSE LET w == (s.write_ptr + 1) % Capacity
         IN Result([s EXCEPT !.buffer = [s.buffer EXCEPT ![s.write_ptr] = value],
                             !.write_ptr = w,
                             !.is_full = IF w = s.read_ptr THEN TRUE ELSE s.is_full],
                   "ok", <<>>, <<>>, {})

push_mut_slot(s, value) ==
    IF s.is_full THEN Result(s, "Full", <<>>, <<>>, {})
    ELSE LET w == (s.write_ptr + 1) % Capacity
         IN Result([s EXCEPT !.buffer = [s.buffer EXCEPT ![w] = value],
                             !.write_ptr = w,
                             !.is_full = IF w = s.read_ptr THEN TRUE ELSE s.is_full],
                   "ok", <<>>, <<>>, {})

push_mut(s, value) ==
    IF s.is_full THEN Result(s, "Full", <<>>, <<>>, {})
    ELSE LET w == (s.write_ptr + 1) % Capacity
         IN Result([s EXCEPT !.buffer = [s.buffer EXCEPT ![s.write_ptr] = value],
                             !.write_ptr = w],
                   "ok", <<>>, <<>>, {})

push(s, value) ==
    IF s.is_full THEN Result(s, "Full", <<>>, <<>>, {})
    ELSE LET w == (s.write_ptr + 1) % Capacity
         IN Result([s EXCEPT !.buffer = [s.buffer EXCEPT ![s.write_ptr] = value],
                             !.write_ptr = w,
                             !.is_full = IF w = s.read_ptr THEN TRUE ELSE s.is_full],
                   "ok", <<>>, <<>>, {})

push_unchecked_mut(s, value) ==
    LET w == (s.write_ptr + 1) % Capacity
    IN Result([s EXCEPT !.buffer = [s.buffer EXCEPT ![s.write_ptr] = value],
                        !.write_ptr = w],
              "ok", <<>>, <<>>, {})

push_unchecked_mut_checked(s, value) ==
    IF s.is_full THEN Result(s, "Full", <<>>, <<>>, {})
    ELSE LET w == (s.write_ptr + 1) % Capacity
         IN Result([s EXCEPT !.buffer = [s.buffer EXCEPT ![s.write_ptr] = value],
                             !.write_ptr = w,
                             !.is_full = IF w = s.read_ptr THEN TRUE ELSE s.is_full],
                   "ok", <<>>, <<>>, {})

push_unchecked(s, value) ==
    LET w == (s.write_ptr + 1) % Capacity
    IN Result([s EXCEPT !.buffer = [s.buffer EXCEPT ![s.write_ptr] = value],
                        !.write_ptr = w,
                        !.is_full = IF w = s.read_ptr THEN TRUE ELSE s.is_full],
              "ok", <<>>, <<>>, {})

\* The size check of push_buffer.
push_buffer_rejects_mut(s, xs) == Len(xs) > size(s)

push_buffer_rejects(s, xs) == Len(xs) > free(s)

\* The storage after the copies of push_buffer.
push_buffer_store(s, xs) ==
    LET space_until_wrap == Capacity - s.write_ptr
    IN IF Len(xs) > space_until_wrap
       THEN LET chunk1 == first(xs, space_until_wrap)
                chunk2 == lastn(xs, Len(xs) - space_until_wrap)
            IN copy(chunk2, copy(chunk1, s.buffer, s.write_ptr), 0)
       ELSE copy(xs, s.buffer, s.write_ptr)

push_buffer_mut_flag(s, xs) ==
    IF push_buffer_rejects(s, xs) THEN Result(s, "Full", <<>>, <<>>, {})
    ELSE LET w == (s.write_ptr + Len(xs)) % Capacity
         IN Result([s EXCEPT !.buffer = push_buffer_store(s, xs),
                             !.write_ptr = w],
                   "ok", <<>>, <<>>, {})

push_buffer_mut(s, xs) ==
    IF push_buffer_rejects(s, xs) THEN Result(s, "Full", <<>>, <<>>, {})
    ELSE LET w == s.write_ptr + Len(xs)
         IN Result([s EXCEPT !.buffer = push_buffer_store(s, xs),
                             !.write_ptr = w,
                             !.is_full = IF w = s.read_ptr THEN TRUE ELSE s.is_full],
                   "ok", <<>>, <<>>, {})

push_buffer(s, xs) ==
    IF push_buffer_rejects(s, xs) THEN Result(s, "Full", <<>>, <<>>, {})
    ELSE LET w == (s.write_ptr + Len(xs)) % Capacity
         IN Result([s EXCEPT !.buffer = push_buffer_store(s, xs),
                             !.write_ptr = w,
                             !.is_full = IF w = s.read_ptr THEN TRUE ELSE s.is_full],
                   "ok", <<>>, <<>>, {})

pop_mut_check(s) ==
    IF s.write_ptr = s.read_ptr THEN Result(s, "Empty", <<>>, <<>>, {})
    ELSE Result([s EXCEPT !.read_ptr = (s.read_ptr + 1) % Capacity,
                          !.is_full = FALSE],
                "ok", <<s.buffer[s.read_ptr]>>, <<>>, {s.read_ptr})

pop_mut_flag(s) ==
    IF empty(s) THEN Result(s, "Empty", <<>>, <<>>, {})
    ELSE Result([s EXCEPT !.read_ptr = (s.read_ptr + 1) % Capacity],
                "ok", <<s.buffer[s.read_ptr]>>, <<>>, {s.read_ptr})

pop_mut_store(s) ==
    IF empty(s) THEN Result(s, "Empty", <<>>, <<>>, {})
    ELSE Result([s EXCEPT !.buffer = [s.buffer EXCEPT ![s.read_ptr] = 0],
                          !.read_ptr = (s.read_ptr + 1) % Capacity,
                          !.is_full = FALSE],
                "ok", <<s.buffer[s.read_ptr]>>, <<>>, {s.read_ptr})

pop_mut(s) ==
    IF empty(s) THEN Result(s, "Empty", <<>>, <<>>, {})
    ELSE Result([s EXCEPT !.read_ptr = (s.read_ptr + 1) % Capacity,
                          !.is_full = FALSE],
                "ok", <<s.buffer[s.write_ptr]>>, <<>>, {s.write_ptr})

pop(s) ==
    IF empty(s) THEN Result(s, "Empty", <<>>, <<>>, {})
    ELSE Result([s EXCEPT !.read_ptr = (s.read_ptr + 1) % Capacity,
                          !.is_full = FALSE],
                "ok", <<s.buffer[s.read_ptr]>>, <<>>, {s.read_ptr})

pop_unchecked(s) ==
    Result([s EXCEPT !.read_ptr = (s.read_ptr + 1) % Capacity,
                     !.is_full = FALSE],
           "ok", <<s.buffer[s.read_ptr]>>, <<>>, {s.read_ptr})

pop_buffer_rejects_mut(s, n) == n > free(s)

pop_buffer_rejects(s, n) == n > size(s)

\* The copies of pop_buffer: the elements written to the destination, in
\* order, and the storage indices they were read from.
pop_buffer_copies(s, n) ==
    LET items_until_wrap == Capacity - s.read_ptr
    IN IF n > items_until_wrap
       THEN LET chunk1 == slice(s.buffer, Capacity - items_until_wrap, Capacity)
                chunk2 == slice(s.buffer, 0, n - items_until_wrap)
            IN [out |-> chunk1 \o chunk2,
                rd |-> ((Capacity - items_until_wrap)..(Capacity - 1))
                           \cup (0..(n - items_until_wrap - 1))]
       ELSE LET begin == s.read_ptr
                end == begin + items_until_wrap
            IN [out |-> slice(s.buffer, begin, end), rd |-> begin..(end - 1)]

\* n is the length of the destination span.  The elements are written to the
\* caller's memory from the destination's first cell on; "out" lists them,
\* so the cells past Len(out) are not written and the elements of out past n
\* land behind the destination span.
pop_buffer(s, n) ==
    IF pop_buffer_rejects(s, n) THEN Result(s, "Empty", <<>>, <<>>, {})
    ELSE LET c == pop_buffer_copies(s, n)
         IN Result([s EXCEPT !.read_ptr = (s.read_ptr + n) % Capacity,
                             !.is_full = FALSE],
                   "ok", <<>>, c.out, c.rd)

clear_mut(s) ==
    Result([s EXCEPT !.write_ptr = 0, !.read_ptr = 0], "ok", <<>>, <<>>, {})

clear(s) ==
    Result([s EXCEPT !.write_ptr = 0, !.read_ptr = 0, !.is_full = FALSE],
           "ok", <<>>, <<>>, {})

\* The elements the buffer holds, oldest first: the values that pop returns
\* when it is called until it fails.
\* push called with the elements of xs one by one: the object afterwards,
\* and whether every call succeeded.
RECURSIVE push_each(_, _)
push_each(s, xs) ==
    IF xs = <<>> THEN [self |-> s, ok |-> TRUE]
    ELSE LET r == push(s, Head(xs))
             rest == push_each(r.self, Tail(xs))
         IN [self |-> rest.self, ok |-> r.err = "ok" /\ rest.ok]

RECURSIVE drain(_)
drain(s) ==
    IF pop(s).err # "ok" THEN <<>> ELSE pop(s).ret \o drain(pop(s).self)

----------------------------------------------------------------------------
\* core::ringbuf::Iterator<T> and Sentinel (src/src/ringbuf/iterator.hpp).
\* An iterator is its ptr and cycle; its span "data" is the storage of the
\* buffer it came from, Capacity elements long.

\* static_cast<size_t> of a signed value and static_cast<ssize_t> of an
\* unsigned one.
to_size(x) == x % (2 ^ Bits)

to_ssize(u) == IF u >= 2 ^ (Bits - 1) THEN u - 2 ^ Bits ELSE u

\* Addition and subtraction of two ssize_t on a build where the signed
\* result wraps, and whether the exact result is outside ssize_t (signed
\* overflow).
sadd(a, b) == to_ssize((a + b) % (2 ^ Bits))

ssub(a, b) == to_ssize((a - b) % (2 ^ Bits))

overflows(x) == x < SMin \/ x > SMax

\* std::div: the quotient truncated towards zero, and its remainder.
quot(a, b) == IF a >= 0 THEN a \div b ELSE -((-a) \div b)

rem(a, b) == a - quot(a, b) * b

\* The constructors: both take ptr and cycle as size_t and store the cycle
\* as ssize_t.
Iterator(ptr, cycle) == [ptr |-> ptr, cycle |-> to_ssize(cycle)]

Sentinel(ptr, cycle) == [ptr |-> ptr, cycle |-> to_ssize(cycle)]

begin_mut(s) == Iterator(s.write_ptr, 0)

begin(s) == Iterator(s.read_ptr, 0)

end_mut(s) ==
    IF s.write_ptr < s.read_ptr THEN Sentinel(s.write_ptr, 1)
    ELSE Sentinel(s.write_ptr, 0)

end(s) ==
    IF s.write_ptr < s.read_ptr \/ full(s) THEN Sentinel(s.write_ptr, 1)
    ELSE Sentinel(s.write_ptr, 0)

\* operator==(Sentinel) and operator==(const Iterator&).
iter_eq_sentinel_mut(it, other) == it.ptr = other.ptr

iter_eq_sentinel(it, other) == it.cycle = other.cycle /\ it.ptr = other.ptr

iter_eq(it, other) == it.cycle = other.cycle /\ it.ptr = other.ptr

\* operator<=>: -1 for less, 0 for equal, 1 for greater.
three_way(a, b) == IF a < b THEN -1 ELSE IF a = b THEN 0 ELSE 1

iter_cmp_mut(it, other) == three_way(it.ptr, other.ptr)

iter_cmp(it, other) ==
    IF it.cycle = other.cycle THEN three_way(it.ptr, other.ptr)
    ELSE three_way(it.cycle, other.cycle)

\* operator*: the slot of the storage s.buffer the iterator points at.
deref(it, s) == s.buffer[it.ptr]

\* operator++ and operator++(int): the iterator afterwards.
pre_inc_mut(it) ==
    IF it.ptr >= Capacity - 1 THEN [it EXCEPT !.ptr = 0]
    ELSE [it EXCEPT !.ptr = it.ptr + 1]

pre_inc(it) ==
    IF it.ptr >= Capacity - 1 THEN [it EXCEPT !.ptr = 0, !.cycle = it.cycle + 1]
    ELSE [it EXCEPT !.ptr = it.ptr + 1]

post_inc(it) ==
    IF it.ptr >= Capacity - 1 THEN [it EXCEPT !.ptr = 0, !.cycle = it.cycle + 1]
    ELSE [it EXCEPT !.ptr = it.ptr + 1]

\* operator-- and operator--(int): the iterator afterwards.
pre_dec_mut(it) ==
    IF it.ptr = 0 THEN [it EXCEPT !.ptr = Capacity - 1]
    ELSE [it EXCEPT !.ptr = it.ptr - 1]

pre_dec(it) ==
    IF it.ptr = 0 THEN [it EXCEPT !.ptr = Capacity - 1, !.cycle = it.cycle - 1]
    ELSE [it EXCEPT !.ptr = it.ptr - 1]

post_dec(it) ==
    IF it.ptr = 0 THEN [it EXCEPT !.ptr = Capacity - 1, !.cycle = it.cycle - 1]
    ELSE [it EXCEPT !.ptr = it.ptr - 1]

\* operator-(Sentinel), operator-(const Iterator&) and Sentinel::operator-.
iter_minus_sentinel(it, other) ==
    LET this_pos == to_ssize(it.ptr) + (it.cycle * Capacity)
        other_pos == to_ssize(other.ptr) + (other.cycle * Capacity)
    IN this_pos - other_pos

iter_minus_iter(it, other) ==
    LET this_pos == to_ssize(it.ptr) + (it.cycle * Capacity)
        other_pos == to_ssize(other.ptr) + (other.cycle * Capacity)
    IN this_pos - other_pos

sentinel_minus_iter(sen, other) ==
    LET this_pos == to_ssize(sen.ptr) + (sen.cycle * Capacity)
        other_pos == to_ssize(other.ptr) + (other.cycle * Capacity)
    IN this_pos - other_pos

\* The two bound checks that operator+=, operator-=, operator+ and operator-
\* all apply to the raw index new_ptr: the index and the cycle afterwards.
wrap_upper(new_ptr, cycle) ==
    IF new_ptr >= Capacity
    THEN [ptr |-> rem(new_ptr, Capacity),
          cycle |-> sadd(cycle, quot(new_ptr, Capacity))]
    ELSE [ptr |-> new_ptr, cycle |-> cycle]

wrap_lower(new_ptr, cycle) ==
    IF new_ptr < 0
    THEN [ptr |-> Capacity + rem(new_ptr, Capacity),
          cycle |-> sadd(cycle, quot(new_ptr, Capacity))]
    ELSE [ptr |-> new_ptr, cycle |-> cycle]

wrap(new_ptr, cycle) ==
    LET upper == wrap_upper(new_ptr, cycle)
    IN wrap_lower(upper.ptr, upper.cycle)

\* Whether one of the two "cycle += result.quot" overflows.
wrap_overflows(new_ptr, cycle) ==
    LET upper == wrap_upper(new_ptr, cycle)
    IN \/ new_ptr >= Capacity /\ overflows(cycle + quot(new_ptr, Capacity))
       \/ upper.ptr < 0 /\ overflows(upper.cycle + quot(upper.ptr, Capacity))

\* operator+= and operator-=: they update ptr and cycle in place.
plus_assign(it, other) ==
    LET w == wrap(sadd(to_ssize(it.ptr), other), it.cycle)
    IN [ptr |-> to_size(w.ptr), cycle |-> w.cycle]

minus_assign(it, other) ==
    LET w == wrap(ssub(to_ssize(it.ptr), other), it.cycle)
    IN [ptr |-> to_size(w.ptr), cycle |-> w.cycle]

\* operator+(Iterator, difference_type), operator+(difference_type,
\* Iterator) and operator-(Iterator, difference_type): they construct a new
\* iterator.
plus(lhs, rhs) ==
    LET w == wrap(sadd(to_ssize(lhs.ptr), rhs), lhs.cycle)
    IN Iterator(to_size(w.ptr), to_size(w.cycle))

plus_rev(lhs, rhs) == plus(rhs, lhs)

minus(lhs, rhs) ==
    LET w == wrap(ssub(to_ssize(lhs.ptr), rhs), lhs.cycle)
    IN Iterator(to_size(w.ptr), to_size(w.cycle))

\* Whether the call has a signed overflow: in "old_ptr + other" or
\* "old_ptr - other", or in a "cycle += result.quot" after it.
plus_assign_overflows(it, other) ==
    \/ overflows(to_ssize(it.ptr) + other)
    \/ wrap_overflows(sadd(to_ssize(it.ptr), other), it.cycle)

minus_assign_overflows(it, other) ==
    \/ overflows(to_ssize(it.ptr) - other)
    \/ wrap_overflows(ssub(to_ssize(it.ptr), other), it.cycle)

plus_overflows(lhs, rhs) ==
    \/ overflows(to_ssize(lhs.ptr) + rhs)
    \/ wrap_overflows(sadd(to_ssize(lhs.ptr), rhs), lhs.cycle)

minus_overflows(lhs, rhs) ==
    \/ overflows(to_ssize(lhs.ptr) - rhs)
    \/ wrap_overflows(ssub(to_ssize(lhs.ptr), rhs), lhs.cycle)

\* operator[]: index_adj, and the slot of the storage s.buffer it selects.
\* "this->ptr + index" is a sum of two size_t.
index_adj(it, i) == to_size(it.ptr + i) % Capacity

index(it, i, s) == s.buffer[index_adj(it, i)]

\* The iterator after k calls of operator++, and of operator++(int).
RECURSIVE pre_inc_times(_, _)
pre_inc_times(it, k) == IF k = 0 THEN it ELSE pre_inc_times(pre_inc(it), k - 1)

RECURSIVE post_inc_times(_, _)
post_inc_times(it, k) == IF k = 0 THEN it ELSE post_inc_times(post_inc(it), k - 1)

\* The iterator after k calls of operator--.
RECURSIVE pre_dec_times(_, _)
pre_dec_times(it, k) == IF k = 0 THEN it ELSE pre_dec_times(pre_dec(it), k - 1)

----------------------------------------------------------------------------
\* The caller's view of a pop_buffer call with a destination of n cells.

\* The destination span after the call.
dest(r, n) == [i \in 1..n |-> IF i <= Len(r.out) THEN r.out[i] ELSE Blank]

\* The elements the call wrote behind the destination span.
overrun(r, n) == IF Len(r.out) > n THEN SubSeq(r.out, n + 1, Len(r.out)) ELSE <<>>

----------------------------------------------------------------------------
\* Actions: one call of one method on the buffer.

\* arg: the elements a successful push or push_buffer was given; len: the
\* length of the span a call was given (1 for a single element); on_empty:
\* the call found the buffer empty().
Call(op, arg, n, r) ==
    [op |-> op, arg |-> IF r.err = "ok" THEN arg ELSE <<>>, len |-> n,
     err |-> r.err, ret |-> r.ret,
     out |-> r.out, rd |-> r.rd, on_empty |-> empty(this)]

NoCall ==
    [op |-> "init", arg |-> <<>>, len |-> 0, err |-> "ok", ret |-> <<>>,
     out |-> <<>>, rd |-> {}, on_empty |-> TRUE]

\* A call that wrote outside the destination the caller handed in has
\* broken the process: nothing is called after it.
Running == last.err # "crash"

Apply(op, arg, n, r) ==
    /\ Running
    /\ buffer' = r.self.buffer
    /\ write_ptr' = r.self.write_ptr
    /\ read_ptr' = r.self.read_ptr
    /\ is_full' = r.self.is_full
    /\ last' = Call(op, arg, n, r)
    /\ pre' = this
    /\ sent' = IF op = "pop_buffer" /\ last.op = "push_buffer" /\ last.err = "ok"
                  /\ last.on_empty
               THEN <<last.arg>> ELSE <<>>

\* No iterator has been obtained yet, and no iterator operation called.
NoIterator == [ptr |-> 0, cycle |-> 0, valid |-> FALSE]

NoIterCall ==
    [op |-> "none", d |-> 0, from |-> NoIterator, ub |-> "none", slot |-> -1]

Init ==
    /\ buffer = [i \in 0..(Capacity - 1) |-> 0]
    /\ write_ptr = 0
    /\ read_ptr = 0
    /\ is_full = FALSE
    /\ last = NoCall
    /\ pre = this
    /\ sent = <<>>
    /\ pushed = <<>>
    /\ popped = <<>>
    /\ streak = 0
    /\ iter = NoIterator
    /\ itlast = NoIterCall

Push(value) ==
    /\ Apply("push", <<value>>, 1, push(this, value))
    /\ UNCHANGED <<pushed, popped, streak, iter, itlast>>

PushUnchecked(value) ==
    /\ Apply("push_unchecked", <<value>>, 1, push_unchecked(this, value))
    /\ UNCHANGED <<pushed, popped, streak, iter, itlast>>

PushBuffer(xs) ==
    /\ Apply("push_buffer", xs, Len(xs), push_buffer(this, xs))
    /\ UNCHANGED <<pushed, popped, streak, iter, itlast>>

Pop ==
    /\ Apply("pop", <<>>, 1, pop(this))
    /\ UNCHANGED <<pushed, popped, streak, iter, itlast>>

PopUnchecked ==
    /\ Apply("pop_unchecked", <<>>, 1, pop_unchecked(this))
    /\ UNCHANGED <<pushed, popped, streak, iter, itlast>>

\* A copy that stays inside the destination span returns normally.  A copy
\* that runs past its end is undefined behaviour: the build either lets it
\* overwrite what lies behind the span and return, or the process faults.
PopBuffer(n) ==
    LET r == pop_buffer(this, n)
    IN /\ \/ Apply("pop_buffer", <<>>, n, r)
          \/ /\ Len(r.out) > n
             /\ Apply("pop_buffer", <<>>, n, [r EXCEPT !.self = this, !.err = "crash"])
       /\ UNCHANGED <<pushed, popped, streak, iter, itlast>>

Clear ==
    /\ Apply("clear", <<>>, 0, clear(this))
    /\ UNCHANGED <<pushed, popped, streak, iter, itlast>>

\* Every method called in any state, the unchecked ones included.
NextAny ==
    \/ \E value \in Values : Push(value)
    \/ \E value \in Values : PushUnchecked(value)
    \/ \E xs \in Batches : PushBuffer(xs)
    \/ Pop
    \/ PopUnchecked
    \/ \E n \in 0..MaxBatch : PopBuffer(n)
    \/ Clear

SpecAny == Init /\ [][NextAny]_vars

\* The unchecked methods called as their contract demands: push_unchecked
\* only when there is space, pop_unchecked only when there is an element.
PushUncheckedOk(value) == ~full(this) /\ PushUnchecked(value)

PopUncheckedOk == ~empty(this) /\ PopUnchecked

Next ==
    \/ \E value \in Values : Push(value)
    \/ \E value \in Values : PushUncheckedOk(value)
    \/ \E xs \in Batches : PushBuffer(xs)
    \/ Pop
    \/ PopUncheckedOk
    \/ \E n \in 0..MaxBatch : PopBuffer(n)
    \/ Clear

Spec == Init /\ [][Next]_vars

----------------------------------------------------------------------------
\* The push/pop scenario of tests/ringbuf/test.cpp: single-element push and
\* pop calls on a buffer that starts empty, with the values pushed and the
\* values popped recorded.

PushRecorded(value) ==
    LET r == push(this, value)
    IN /\ Len(pushed) < MaxOps
       /\ Apply("push", <<value>>, 1, r)
       /\ pushed' = IF r.err = "ok" THEN Append(pushed, value) ELSE pushed
       /\ streak' = IF r.err = "ok" /\ streak >= 0 THEN streak + 1 ELSE streak
       /\ UNCHANGED <<popped, iter, itlast>>

PopRecorded ==
    LET r == pop(this)
    IN /\ Apply("pop", <<>>, 1, r)
       /\ popped' = IF r.err = "ok" THEN popped \o r.ret ELSE popped
       /\ streak' = IF r.err # "ok" THEN streak
                    ELSE IF empty(r.self) THEN 0 ELSE -1
       /\ UNCHANGED <<pushed, iter, itlast>>

NextPushPop ==
    \/ \E value \in Values : PushRecorded(value)
    \/ PopRecorded

SpecPushPop == Init /\ [][NextPushPop]_vars

----------------------------------------------------------------------------
\* The iterator scenario of tests/ringbuf/iterator.cpp: the caller takes
\* begin() of the buffer and moves the iterator with the increment,
\* decrement and offset operators; "p = p + d" stands for operator+ and
\* operator-, which return a new iterator.

Held(i) == [ptr |-> i.ptr, cycle |-> i.cycle, valid |-> TRUE]

IterCall(op, d, ub, slot) ==
    [op |-> op, d |-> d, from |-> iter, ub |-> ub, slot |-> slot]

\* A signed overflow has stopped the process on a build that traps it:
\* nothing is called after it.
IterRunning == itlast.ub # "trapped"

IterApply(op, d, new) ==
    /\ iter.valid
    /\ new.cycle \in (-MaxCycle)..MaxCycle
    /\ iter' = Held(new)
    /\ itlast' = IterCall(op, d, "none", -1)
    /\ UNCHANGED <<buffer, write_ptr, read_ptr, is_full, last, pre, sent,
                   pushed, popped, streak>>

\* An offset operator.  A call without signed overflow yields new.  Signed
\* overflow is undefined behaviour: the build either wraps the result, which
\* yields new as well, or traps and ends the process.
IterArith(op, d, new, ub) ==
    /\ iter.valid
    /\ iter.cycle \in (-MaxCycle)..MaxCycle
    /\ \/ /\ ~ub
          /\ new.cycle \in (-MaxCycle)..MaxCycle
          /\ iter' = Held(new)
          /\ itlast' = IterCall(op, d, "none", -1)
       \/ /\ ub
          /\ iter' = Held(new)
          /\ itlast' = IterCall(op, d, "wrapped", -1)
       \/ /\ ub
          /\ iter' = NoIterator
          /\ itlast' = IterCall(op, d, "trapped", -1)
    /\ UNCHANGED <<buffer, write_ptr, read_ptr, is_full, last, pre, sent,
                   pushed, popped, streak>>

Begin ==
    /\ IterRunning
    /\ iter' = Held(begin(this))
    /\ itlast' = IterCall("begin", 0, "none", -1)
    /\ UNCHANGED <<buffer, write_ptr, read_ptr, is_full, last, pre, sent,
                   pushed, popped, streak>>

PreInc == IterApply("pre_inc", 1, pre_inc(iter))

PostInc == IterApply("post_inc", 1, post_inc(iter))

PreDec == IterApply("pre_dec", 1, pre_dec(iter))

PostDec == IterApply("post_dec", 1, post_dec(iter))

PlusAssign(d) ==
    IterArith("plus_assign", d, plus_assign(iter, d), plus_assign_overflows(iter, d))

MinusAssign(d) ==
    IterArith("minus_assign", d, minus_assign(iter, d),
              minus_assign_overflows(iter, d))

Plus(d) == IterArith("plus", d, plus(iter, d), plus_overflows(iter, d))

PlusRev(d) == IterArith("plus_rev", d, plus_rev(d, iter), plus_overflows(iter, d))

Minus(d) == IterArith("minus", d, minus(iter, d), minus_overflows(iter, d))

\* operator[] is const: the iterator stays as it is; the slot it selected is
\* recorded.
Index(k) ==
    /\ iter.valid
    /\ iter' = iter
    /\ itlast' = IterCall("index", k, "none", index_adj(iter, k))
    /\ UNCHANGED <<buffer, write_ptr, read_ptr, is_full, last, pre, sent,
                   pushed, popped, streak>>

NextIter ==
    \/ Begin
    \/ PreInc
    \/ PostInc
    \/ PreDec
    \/ PostDec
    \/ \E d \in Offsets : PlusAssign(d)
    \/ \E d \in Offsets : MinusAssign(d)
    \/ \E d \in Offsets : Plus(d)
    \/ \E d \in Offsets : PlusRev(d)
    \/ \E d \in Offsets : Minus(d)
    \/ \E k \in Indices : Index(k)

SpecIter == Init /\ [][NextIter]_vars

----------------------------------------------------------------------------
\* Properties.

\* C1: for every sequence of successful single-element push and pop calls on
\* a buffer that starts empty, size() equals the number of pushes minus the
\* number of pops, and the values returned by pop are the pushed values in
\* the order they were pushed.
C1_Fifo ==
    /\ Len(popped) <= Len(pushed)
    /\ size(this) = Len(pushed) - Len(popped)
    /\ popped = SubSeq(pushed, 1, Len(popped))

\* More elements popped than the storage has slots, so both cursors have
\* wrapped, and the values pushed were not all the same.
C1_Witness ==
    /\ last.op = "pop" /\ last.err = "ok"
    /\ Len(popped) > Capacity
    /\ write_ptr < read_ptr
    /\ \E i, j \in 1..Len(popped) : popped[i] # popped[j]

\* C2: size() + free() == capacity() in every state any sequence of the
\* buffer's operations reaches, and for every combination of write cursor,
\* read cursor in [0, Capacity) and full flag.
C2_SizePlusFree ==
    /\ size(this) + free(this) = capacity(this)
    /\ \A w, r \in 0..(Capacity - 1) : \A f \in BOOLEAN :
          LET s == [this EXCEPT !.write_ptr = w, !.read_ptr = r, !.is_full = f]
          IN size(s) + free(s) = capacity(s)

\* push_unchecked on a full buffer has left the flag set with the cursors
\* apart, and a later state has the write cursor below the read cursor.
C2_Witness ==
    /\ last.op = "pop_unchecked"
    /\ write_ptr < read_ptr
    /\ ~is_full
    /\ pre.is_full /\ pre.write_ptr # pre.read_ptr

\* C3: from any empty state, after exactly Capacity successful pushes full()
\* is true, empty() is false, size() == Capacity, free() == 0, and one
\* further push fails with Full and leaves size() at Capacity.
C3_FullAfterCapacityPushes ==
    /\ streak <= Capacity
    /\ streak = Capacity =>
          /\ full(this)
          /\ ~empty(this)
          /\ size(this) = Capacity
          /\ free(this) = 0
          /\ \A value \in Values :
                /\ push(this, value).err = "Full"
                /\ size(push(this, value).self) = Capacity

\* The further push has been made, on a buffer whose cursors earlier
\* traffic has moved away from 0.
C3_Witness ==
    /\ streak = Capacity
    /\ last.op = "push" /\ last.err = "Full"
    /\ read_ptr # 0

C5_PopFailsIffEmpty ==
    last.op = "pop" =>
        /\ last.err \in {"ok", "Empty"}
        /\ last.err = "Empty" <=> empty(pre)
        /\ last.err = "Empty" <=> size(pre) = 0
        /\ last.err = "Empty" => this = pre /\ size(this) = 0

C5_Witness ==
    /\ last.op = "pop" /\ last.err = "Empty"
    /\ read_ptr # 0

\* C6: push_buffer with a batch longer than free() fails with Full and
\* leaves storage, write cursor, read cursor and full flag as they were.
C6_PushBufferRejects ==
    (last.op = "push_buffer" /\ last.len > free(pre)) =>
        /\ last.err = "Full"
        /\ this = pre

\* A batch that would fit in part: shorter than the capacity, longer than
\* the free space of a buffer that is neither empty nor full.
C6_Witness ==
    /\ last.op = "push_buffer" /\ last.err = "Full"
    /\ last.len > free(pre)
    /\ last.len <= Capacity
    /\ ~full(pre) /\ ~empty(pre)

\* C7: pop_buffer with a destination longer than size() fails with Empty,
\* leaves storage, cursors and full flag as they were and writes nothing to
\* the destination.
C7_PopBufferRejects ==
    (last.op = "pop_buffer" /\ last.len > size(pre)) =>
        /\ last.err = "Empty"
        /\ this = pre
        /\ last.out = <<>>
        /\ last.rd = {}

C7_Witness ==
    /\ last.op = "pop_buffer" /\ last.err = "Empty"
    /\ last.len > size(pre)
    /\ last.len <= Capacity
    /\ ~full(pre) /\ ~empty(pre)

\* C8: on a buffer that holds no other elements, with the cursors at any
\* position, push_buffer of xs followed by pop_buffer into a destination of
\* length |xs| succeeds and the destination then holds exactly xs.
C8_RoundTrip ==
    (last.op = "pop_buffer" /\ sent # <<>> /\ last.len = Len(sent[1])) =>
        /\ last.err = "ok"
        /\ dest(last, last.len) = sent[1]

\* C9: a successful pop_buffer copies exactly the last.len oldest elements
\* into the destination: it writes no position past the end of the
\* destination and reads no storage slot outside those last.len slots.
C9_PopBufferCopiesExactly ==
    (last.op = "pop_buffer" /\ last.len <= size(pre)) =>
        /\ dest(last, last.len) =
              [i \in 1..last.len |-> pre.buffer[(pre.read_ptr + i - 1) % Capacity]]
        /\ overrun(last, last.len) = <<>>
        /\ last.rd \subseteq {(pre.read_ptr + i) % Capacity : i \in 0..(last.len - 1)}

\* C10: a successful push_buffer of a batch of length L, 0 <= L <= free(),
\* advances the write cursor by L mod Capacity and leaves size() equal to
\* the previous size() plus L, full() true if and only if that size is
\* Capacity; a batch of length 0 leaves empty(), full() and size() as they
\* were.
C10_PushBufferAdvances ==
    (last.op = "push_buffer" /\ last.err = "ok") =>
        /\ write_ptr = (pre.write_ptr + last.len) % Capacity
        /\ size(this) = size(pre) + last.len
        /\ full(this) <=> size(this) = Capacity
        /\ last.len = 0 =>
              /\ empty(this) = empty(pre)
              /\ full(this) = full(pre)
              /\ size(this) = size(pre)

\* C11: a successful pop_buffer into a destination of length L, 0 <= L <=
\* size(), leaves size() equal to the previous size() minus L, and the
\* elements that remain are the ones not yet popped, in FIFO order; a
\* destination of length 0 on a full buffer leaves it full.
C11_PopBufferRemoves ==
    (last.op = "pop_buffer" /\ last.err = "ok") =>
        /\ size(this) = size(pre) - last.len
        /\ drain(this) = SubSeq(drain(pre), last.len + 1, size(pre))
        /\ (last.len = 0 /\ full(pre)) => full(this)

\* C12: in every state reached by push, push_buffer, pop, pop_buffer and
\* clear, and by push_unchecked when not full and pop_unchecked when not
\* empty, both cursors are in [0, Capacity) and the full flag implies that
\* the cursors are equal.
C12_DataModel ==
    /\ write_ptr \in 0..(Capacity - 1)
    /\ read_ptr \in 0..(Capacity - 1)
    /\ is_full => write_ptr = read_ptr

\* A batch that crossed the end of storage has filled the buffer, the
\* cursors meeting away from 0.
C12_Witness ==
    /\ last.op = "push_buffer" /\ last.err = "ok"
    /\ is_full
    /\ pre.write_ptr + last.len > Capacity
    /\ write_ptr = read_ptr /\ read_ptr # 0

\* C13: clear() called in any state resets both cursors to 0 and the full
\* flag to false without changing any stored element; afterwards empty() is
\* true, full() is false, size() == 0 and free() == Capacity.
C13_Clear ==
    last.op = "clear" =>
        /\ write_ptr = 0
        /\ read_ptr = 0
        /\ is_full = FALSE
        /\ buffer = pre.buffer
        /\ empty(this)
        /\ ~full(this)
        /\ size(this) = 0
        /\ free(this) = Capacity

\* clear() on a full buffer whose cursors were away from 0 and whose storage
\* holds a non-zero element.
C13_Witness ==
    /\ last.op = "clear"
    /\ pre.is_full
    /\ pre.read_ptr # 0
    /\ \E i \in DOMAIN buffer : buffer[i] # 0

\* C15: whenever push fails with Full, one successful pop makes the very
\* next push succeed; whenever pop fails with Empty, one successful push(v)
\* makes the very next pop succeed and return v.
C15_Retry ==
    /\ (last.op = "push" /\ last.err = "Full") =>
          /\ pop(this).err = "ok"
          /\ \A value \in Values : push(pop(this).self, value).err = "ok"
    /\ (last.op = "pop" /\ last.err = "Empty") =>
          \A value \in Values :
              /\ push(this, value).err = "ok"
              /\ pop(push(this, value).self).err = "ok"
              /\ pop(push(this, value).self).ret = <<value>>

\* A push has failed on a full buffer, or a pop on an empty one whose slot
\* at the read cursor holds a value unlike another slot's, with the cursors
\* away from 0.
C15_Witness ==
    /\ last.op \in {"push", "pop"}
    /\ last.err \in {"Full", "Empty"}
    /\ read_ptr # 0
    /\ last.err = "Empty" => \E i \in DOMAIN buffer : buffer[i] # buffer[read_ptr]

\* C14: the checked operations produce exactly two error kinds: push and
\* push_buffer can only fail with Full, pop and pop_buffer only with Empty;
\* an error holding Empty equals Empty and does not equal Full, and
\* conversely.
C14_ErrorKinds ==
    /\ last.op \in {"push", "push_buffer"} =>
          \/ last.err = "ok"
          \/ /\ last.err \in ErrorKinds
             /\ Variant_eq(Variant(last.err), "Full")
             /\ ~Variant_eq(Variant(last.err), "Empty")
    /\ last.op \in {"pop", "pop_buffer"} =>
          \/ last.err \in {"ok", "crash"}
          \/ /\ last.err \in ErrorKinds
             /\ Variant_eq(Variant(last.err), "Empty")
             /\ ~Variant_eq(Variant(last.err), "Full")
    /\ last.op \in {"push_unchecked", "pop_unchecked", "clear"} => last.err = "ok"

\* pop_buffer has failed on a buffer that holds an element.
C14_Witness ==
    /\ last.op = "pop_buffer"
    /\ last.err = "Empty"
    /\ ~empty(pre)

\* C16: for a buffer holding e_0..e_{s-1} in FIFO order, s = size(), and
\* every k in [0, s): begin()[k] == e_k, and begin() advanced to k by k
\* post-increments, k pre-increments, += k, begin() + k or k + begin()
\* dereferences to e_k.
C16_BeginReachesElements ==
    LET e == drain(this)
        b == begin(this)
    IN /\ Len(e) = size(this)
       /\ \A k \in 0..(size(this) - 1) :
             /\ index(b, k, this) = e[k + 1]
             /\ deref(post_inc_times(b, k), this) = e[k + 1]
             /\ deref(pre_inc_times(b, k), this) = e[k + 1]
             /\ deref(plus_assign(b, k), this) = e[k + 1]
             /\ deref(plus(b, k), this) = e[k + 1]
             /\ deref(plus_rev(k, b), this) = e[k + 1]

\* A full buffer whose contents wrap and are not all the same value.
C16_Witness ==
    /\ full(this)
    /\ last.op = "push" /\ last.err = "ok"
    /\ read_ptr # 0
    /\ drain(this)[1] # drain(this)[Capacity]

\* C17: in every state reached by the checked operations, end() - begin()
\* == size() and begin() - end() == -size(); the end marker's cycle bit is 1
\* exactly when write cursor < read cursor or the buffer is full.
C17_EndMinusBegin ==
    /\ sentinel_minus_iter(end(this), begin(this)) = size(this)
    /\ iter_minus_sentinel(begin(this), end(this)) = -size(this)
    /\ end(this).ptr = write_ptr
    /\ end(this).cycle \in {0, 1}
    /\ end(this).cycle = 1 <=> (write_ptr < read_ptr \/ full(this))

\* Elements on both sides of the physical end of storage.
C17_Witness ==
    /\ last.op = "pop" /\ last.err = "ok"
    /\ write_ptr < read_ptr
    /\ write_ptr # 0

\* C18: begin() incremented size() times equals end(), begin() + size()
\* equals end(), and begin() incremented j times, 0 <= j < size(), does not
\* equal end().
C18_TraversalEndsAtSize ==
    LET b == begin(this)
    IN /\ iter_eq_sentinel(pre_inc_times(b, size(this)), end(this))
       /\ iter_eq_sentinel(post_inc_times(b, size(this)), end(this))
       /\ iter_eq_sentinel(plus(b, size(this)), end(this))
       /\ \A j \in 0..(size(this) - 1) :
             /\ ~iter_eq_sentinel(pre_inc_times(b, j), end(this))
             /\ ~iter_eq_sentinel(post_inc_times(b, j), end(this))

\* A full buffer with the cursors in the middle of the storage: the
\* traversal wraps and comes back to the index it started from.
C18_Witness ==
    /\ full(this)
    /\ last.op = "push_buffer" /\ last.err = "ok"
    /\ read_ptr = Capacity - 1

\* C19: begin() == end() if and only if the buffer is empty, for every
\* cursor position; two begin() positions of the same buffer are equal.
C19_BeginEqEndIffEmpty ==
    /\ iter_eq_sentinel(begin(this), end(this)) <=> empty(this)
    /\ size(this) >= 1 => ~iter_eq_sentinel(begin(this), end(this))
    /\ iter_eq(begin(this), begin(this))

\* The buffer was full, cursors equal and away from 0, and a pop_buffer of
\* all its elements has emptied it.
C19_Witness ==
    /\ empty(this)
    /\ last.op = "pop_buffer" /\ last.err = "ok"
    /\ pre.is_full
    /\ last.len = Capacity
    /\ read_ptr # 0

\* C20: for every Position p with ptr in [0, N) and every signed offset d,
\* positive or negative and of any magnitude, p + d, d + p and p += d have
\* the logical position ptr + cycle * N of p plus d, and p - d and p -= d
\* that of p minus d.
C20_OffsetArithmetic ==
    LET p == itlast.from
        before == p.ptr + p.cycle * Capacity
        after == iter.ptr + iter.cycle * Capacity
    IN p.ptr \in 0..(Capacity - 1) =>
          /\ itlast.op \in {"plus", "plus_rev", "plus_assign"} =>
                after = before + itlast.d
          /\ itlast.op \in {"minus", "minus_assign"} =>
                after = before - itlast.d

\* C20 for the offsets that leave the raw index ptr + d (ptr - d for
\* subtraction) at 0 or above, without signed overflow: there the logical
\* position is as claimed.
C20_RawNonNegative ==
    LET p == itlast.from
        before == p.ptr + p.cycle * Capacity
        after == iter.ptr + iter.cycle * Capacity
    IN (p.ptr \in 0..(Capacity - 1) /\ itlast.ub = "none") =>
          /\ (itlast.op \in {"plus", "plus_rev", "plus_assign"}
                 /\ p.ptr + itlast.d >= 0) =>
                after = before + itlast.d
          /\ (itlast.op \in {"minus", "minus_assign"}
                 /\ p.ptr - itlast.d >= 0) =>
                after = before - itlast.d

\* C21: every Position obtained from begin() by any sequence of ++, --, +=,
\* -=, + and - with any signed offsets has its physical index ptr in [0, N).
C21_PtrInRange == iter.valid => iter.ptr \in 0..(Capacity - 1)

\* C22: for every Position p with ptr in [0, N), ++p and p++ leave p with
\* the same (ptr, cycle) as p + 1 and p += 1, and --p and p-- leave p with
\* the same (ptr, cycle) as p - 1 and p -= 1.
C22_StepIsOffsetOne ==
    (iter.valid /\ iter.ptr \in 0..(Capacity - 1)) =>
        /\ \A q \in {pre_inc(iter), post_inc(iter)} :
              /\ iter_eq(q, plus(iter, 1))
              /\ iter_eq(q, plus_assign(iter, 1))
        /\ \A q \in {pre_dec(iter), post_dec(iter)} :
              /\ iter_eq(q, minus(iter, 1))
              /\ iter_eq(q, minus_assign(iter, 1))

\* The increment half of C22: ++p and p++ agree with p + 1 and p += 1.
C22_IncrementHalf ==
    (iter.valid /\ iter.ptr \in 0..(Capacity - 1)) =>
        \A q \in {pre_inc(iter), post_inc(iter)} :
            /\ iter_eq(q, plus(iter, 1))
            /\ iter_eq(q, plus_assign(iter, 1))

\* C23: for two Positions a and b obtained from the same buffer's begin() by
\* any sequence of ++, --, +=, -=, + and -, the comparison by cycle, then
\* ptr, agrees with the distance: a < b iff a - b < 0, a == b iff
\* a - b == 0, a > b iff a - b > 0.  Here a is the iterator held and b the
\* iterator it was computed from.
C23_OrderAgreesWithDistance ==
    LET a == iter
        b == itlast.from
    IN (a.valid /\ b.valid) =>
          /\ iter_cmp(a, b) = three_way(iter_minus_iter(a, b), 0)
          /\ iter_eq(a, b) <=> iter_minus_iter(a, b) = 0

\* C23 for two Positions whose ptr is in [0, N).
C23_InRange ==
    LET a == iter
        b == itlast.from
    IN (a.valid /\ b.valid /\ a.ptr < Capacity /\ b.ptr < Capacity) =>
          /\ iter_cmp(a, b) = three_way(iter_minus_iter(a, b), 0)
          /\ iter_eq(a, b) <=> iter_minus_iter(a, b) = 0

\* C24: for a full buffer with the read cursor at any physical position and
\* every k in [1, N], it = begin() advanced by += k satisfies it != begin(),
\* it > begin() and begin() < it.
C24_AdvancedIsGreater ==
    full(this) =>
        \A k \in 1..Capacity :
            LET b == begin(this)
                i == plus_assign(b, k)
            IN /\ ~iter_eq(i, b)
               /\ iter_cmp(i, b) = 1
               /\ iter_cmp(b, i) = -1

\* A buffer filled by push_unchecked with its cursors at index 1: += k wraps
\* for k >= N - 1, and k = N returns to the ptr of begin().
C24_Witness ==
    /\ full(this)
    /\ last.op = "push_unchecked"
    /\ read_ptr = 1

\* C25: for a full buffer with the read cursor at any physical position and
\* every j in [0, N-1], it = begin() + (N-1) decremented j times satisfies:
\* *it is the element at logical index N-1-j, it - end() == -(j+1),
\* end() - it == j+1 and it - begin() == N-1-j.
C25_DecrementFromLast ==
    full(this) =>
        \A j \in 0..(Capacity - 1) :
            LET i == pre_dec_times(plus(begin(this), Capacity - 1), j)
            IN /\ deref(i, this) = drain(this)[Capacity - j]
               /\ iter_minus_sentinel(i, end(this)) = -(j + 1)
               /\ sentinel_minus_iter(end(this), i) = j + 1
               /\ iter_minus_iter(i, begin(this)) = Capacity - 1 - j

\* A full buffer, read cursor at the last slot, so that begin() + (N-1) is in
\* cycle 1 and the decrements cross back into cycle 0; the oldest and the
\* newest element differ.
C25_Witness ==
    /\ full(this)
    /\ last.op = "push" /\ last.err = "ok"
    /\ read_ptr = Capacity - 1
    /\ drain(this)[1] # drain(this)[Capacity]

\* C26: for every Position p with ptr in [0, N) and every offset d of the
\* signed difference type, d near its maximum and minimum included,
\* computing p + d, p - d, p += d and p -= d performs no signed addition or
\* subtraction whose exact result is outside the representable range.
C26_NoSignedOverflow ==
    (itlast.op \in {"plus", "plus_rev", "plus_assign", "minus", "minus_assign"}
        /\ itlast.from.ptr \in 0..(Capacity - 1)) =>
        itlast.ub = "none"

\* C27: position[k] reads storage[(ptr + k) mod N] for every k >= 0 and
\* leaves the Position's ptr and cycle, and the buffer's cursors and full
\* flag, unchanged.
C27_IndexedAccess ==
    [][(itlast'.op = "index" /\ itlast' # itlast) =>
          /\ itlast'.slot = (iter.ptr + itlast'.d) % Capacity
          /\ iter' = iter
          /\ UNCHANGED <<buffer, write_ptr, read_ptr, is_full>>]_vars

\* C27 for the indices k whose sum with ptr is representable in size_t.
C27_SumRepresentable ==
    [][(itlast'.op = "index" /\ itlast' # itlast
           /\ iter.ptr + itlast'.d < 2 ^ Bits) =>
          /\ itlast'.slot = (iter.ptr + itlast'.d) % Capacity
          /\ iter' = iter
          /\ UNCHANGED <<buffer, write_ptr, read_ptr, is_full>>]_vars

\* The frame half of C27, for every index.
C27_Frame ==
    [][(itlast'.op = "index" /\ itlast' # itlast) =>
          /\ iter' = iter
          /\ UNCHANGED <<buffer, write_ptr, read_ptr, is_full>>]_vars

\* C28: in every non-full state push_unchecked(v) produces the same storage,
\* cursors and full flag as a successful push(v), and in every non-empty
\* state pop_unchecked() returns the same value and produces the same state
\* as a successful pop().
C28_UncheckedAsChecked ==
    /\ last.op = "push_unchecked" =>
          /\ push(pre, last.arg[1]).err = "ok"
          /\ this = push(pre, last.arg[1]).self
    /\ last.op = "pop_unchecked" =>
          /\ pop(pre).err = "ok"
          /\ last.ret = pop(pre).ret
          /\ this = pop(pre).self
    /\ ~full(this) =>
          \A value \in Values :
              /\ push(this, value).err = "ok"
              /\ push_unchecked(this, value).self = push(this, value).self
    /\ ~empty(this) =>
          /\ pop(this).err = "ok"
          /\ pop_unchecked(this).ret = pop(this).ret
          /\ pop_unchecked(this).self = pop(this).self

\* push_unchecked has stored the last free slot, next to the end of the
\* storage: the write cursor wrapped to 0 and the buffer became full.
C28_Witness ==
    /\ last.op = "push_unchecked"
    /\ ~pre.is_full
    /\ full(this)
    /\ write_ptr = 0

\* C29: push_unchecked(v) called while the buffer is full reports no error,
\* replaces the slot at the read cursor by v, advances the write cursor by
\* one mod N, leaves the read cursor unchanged, and full() stays true with
\* size() still N.
C29_OverwritesOldest ==
    (last.op = "push_unchecked" /\ full(pre)) =>
        /\ last.err = "ok"
        /\ buffer = [pre.buffer EXCEPT ![pre.read_ptr] = last.arg[1]]
        /\ write_ptr = (pre.write_ptr + 1) % Capacity
        /\ read_ptr = pre.read_ptr
        /\ full(this)
        /\ size(this) = Capacity

\* C29 amended: the same, for a full buffer whose write cursor equals its
\* read cursor, as it does in every full state that earlier calls reached
\* within their preconditions.
C29_OverwritesOldestAligned ==
    (last.op = "push_unchecked" /\ full(pre) /\ pre.write_ptr = pre.read_ptr) =>
        /\ last.err = "ok"
        /\ buffer = [pre.buffer EXCEPT ![pre.read_ptr] = last.arg[1]]
        /\ write_ptr = (pre.write_ptr + 1) % Capacity
        /\ read_ptr = pre.read_ptr
        /\ full(this)
        /\ size(this) = Capacity

\* push_unchecked on a full buffer with equal cursors away from slot 0 has
\* replaced the oldest element by a different value.
C29_Witness ==
    /\ last.op = "push_unchecked"
    /\ full(pre)
    /\ pre.write_ptr = pre.read_ptr
    /\ read_ptr # 0
    /\ pre.buffer[pre.read_ptr] # last.arg[1]

\* C30: a successful push(v) writes v to the slot at the old write cursor
\* and to no other slot, leaves the read cursor unchanged, advances the
\* write cursor to (old + 1) mod N, and leaves full() true if and only if
\* the advanced write cursor equals the read cursor.
C30_PushFrame ==
    (last.op = "push" /\ last.err = "ok") =>
        /\ buffer = [pre.buffer EXCEPT ![pre.write_ptr] = last.arg[1]]
        /\ read_ptr = pre.read_ptr
        /\ write_ptr = (pre.write_ptr + 1) % Capacity
        /\ full(this) <=> write_ptr = read_ptr

\* A push into the last slot of the storage has changed that slot, wrapped
\* the write cursor to 0 and left the buffer not full.
C30_Witness ==
    /\ last.op = "push" /\ last.err = "ok"
    /\ pre.write_ptr = Capacity - 1
    /\ pre.buffer[pre.write_ptr] # last.arg[1]
    /\ write_ptr = 0
    /\ ~full(this)

\* C31: a successful pop() returns the element at the old read cursor,
\* advances the read cursor to (old + 1) mod N, leaves the write cursor and
\* every stored element unchanged, and leaves full() false.
C31_PopFrame ==
    (last.op = "pop" /\ last.err = "ok") =>
        /\ last.ret = <<pre.buffer[pre.read_ptr]>>
        /\ read_ptr = (pre.read_ptr + 1) % Capacity
        /\ write_ptr = pre.write_ptr
        /\ buffer = pre.buffer
        /\ ~full(this)

\* A pop from a full buffer with the read cursor at the last slot: it
\* returned a non-zero element, wrapped the read cursor and left the buffer
\* not full.
C31_Witness ==
    /\ last.op = "pop" /\ last.err = "ok"
    /\ pre.is_full
    /\ pre.read_ptr = Capacity - 1
    /\ last.ret = <<MaxVal>>
    /\ read_ptr = 0

\* C32: for every batch xs with 1 <= |xs| <= free() and every write cursor
\* position, a successful push_buffer(xs) leaves storage, write cursor, read
\* cursor and full flag as pushing the elements of xs one by one with push
\* does.
C32_PushBufferAsPushes ==
    (last.op = "push_buffer" /\ last.err = "ok" /\ last.len >= 1) =>
        /\ push_each(pre, last.arg).ok
        /\ this = push_each(pre, last.arg).self

\* A batch of two different elements or more that crossed the physical end
\* of the storage and filled the buffer.
C32_Witness ==
    /\ last.op = "push_buffer" /\ last.err = "ok"
    /\ last.len >= 2
    /\ pre.write_ptr + last.len > Capacity
    /\ last.arg[1] # last.arg[last.len]
    /\ full(this)

\* C33: for every Position p with ptr in [0, N) and every signed offset d,
\* (p + d) - d == p and (p - d) + d == p, with equal ptr and equal cycle.
\* Here p + d, or p - d, is the iterator held and p the one it was computed
\* from.
C33_OffsetRoundTrip ==
    (itlast.from.ptr \in 0..(Capacity - 1) /\ itlast.ub = "none") =>
        /\ itlast.op = "plus" => iter_eq(minus(iter, itlast.d), itlast.from)
        /\ itlast.op = "minus" => iter_eq(plus(iter, itlast.d), itlast.from)

\* C33 for the offsets that keep ptr + d, or ptr - d, within [0, N).
C33_WithinStorage ==
    (itlast.from.ptr \in 0..(Capacity - 1) /\ itlast.ub = "none") =>
        /\ (itlast.op = "plus"
               /\ itlast.from.ptr + itlast.d \in 0..(Capacity - 1)) =>
              iter_eq(minus(iter, itlast.d), itlast.from)
        /\ (itlast.op = "minus"
               /\ itlast.from.ptr - itlast.d \in 0..(Capacity - 1)) =>
              iter_eq(plus(iter, itlast.d), itlast.from)

\* C34: for every Position p with ptr in [0, N) and every d > 0,
\* (p - d) < p and (p - d) - p == -d, including when ptr - d goes below 0.
\* Here p - d is the iterator held and p the one it was computed from.
C34_RetreatIsLess ==
    (itlast.op \in {"minus", "minus_assign"} /\ itlast.d > 0
        /\ itlast.from.ptr \in 0..(Capacity - 1)) =>
        /\ iter_cmp(iter, itlast.from) = -1
        /\ iter_minus_iter(iter, itlast.from) = -itlast.d

\* C34 for the offsets with ptr - d >= 0.
C34_NoWrap ==
    (itlast.op \in {"minus", "minus_assign"} /\ itlast.d > 0
        /\ itlast.from.ptr \in 0..(Capacity - 1)
        /\ itlast.from.ptr - itlast.d >= 0) =>
        /\ iter_cmp(iter, itlast.from) = -1
        /\ iter_minus_iter(iter, itlast.from) = -itlast.d

\* C35: in every state reachable by the checked operations, empty() iff
\* size() == 0, full() iff size() == N, empty() and full() are never both
\* true, and size() equals (write cursor - read cursor) mod N when not full.
C35_QueriesConsistent ==
    /\ empty(this) <=> size(this) = 0
    /\ full(this) <=> size(this) = Capacity
    /\ ~(empty(this) /\ full(this))
    /\ ~full(this) => size(this) = (write_ptr - read_ptr) % Capacity

\* A batch has just filled the buffer with the cursors away from slot 0:
\* the cursors are equal and the buffer is full, not empty.
C35_Witness ==
    /\ last.op = "push_buffer" /\ last.err = "ok"
    /\ last.len >= 1
    /\ full(this)
    /\ write_ptr = read_ptr
    /\ write_ptr # 0

====
